---- MODULE Spec2Model ----
(***************************************************************************)
(* Channel selection coordinator (src/src/browser/channelSelection.ts) and *)
(* the tile click strategy (src/src/browser/tuning/tileClick.ts).          *)
(*                                                                         *)
(* One selectChannel call at a time runs against one page.  Every await of *)
(* the code is one action; the page (an uncontrolled, asynchronously       *)
(* rendering document) answers each of them nondeterministically.         *)
(***************************************************************************)
EXTENDS Integers, Sequences, FiniteSets, TLC

VARIABLES
    pc,          \* position of the call: "idle", a suspension point, or "done"
    profile,     \* the ResolvedSiteProfile argument of the call
    dom,         \* the images of the document, as the Locate evaluation sees them
    tileTarget,  \* tileClick.ts: const tileTarget
    playTarget,  \* tileClick.ts: const playTarget (of the current attempt)
    attempt,     \* tileClick.ts: the loop variable of the retry loop
    clickArg,    \* channelSelection.ts: parameter target of scrollAndClick
    clickSite,   \* which call site of scrollAndClick is running: "tile" or "play"
    clickReturned, \* the running scrollAndClick call has returned true
    stratResult, \* the ChannelSelectorResult the strategy function returned
    result,      \* the ChannelSelectorResult selectChannel returned to its caller
    outcome,     \* how the call ended: "none" (running), "returned" or "thrown"
    trace,       \* the operations of the call, in order
    log,         \* the LOG calls of the call, in order
    caches,      \* the module-level caches of the hbo, hulu and sling tuning modules
    clearedFrom, \* the caches as the last clearChannelSelectionCaches call found them
    options,     \* the argument of a logAvailableChannels call
    warnings,    \* what that logAvailableChannels call logged
    name,        \* the argument of a normalizeChannelName call
    normalized   \* what that normalizeChannelName call returned

\* The state of a selectChannel call.
callVars == <<pc, profile, dom, tileTarget, playTarget, attempt, clickArg, clickSite,
              clickReturned, stratResult, result, outcome, trace, log>>

\* The state outside a selectChannel call.
auxVars == <<caches, clearedFrom, options, warnings, name, normalized>>

vars == <<callVars, auxVars>>

----------------------------------------------------------------------------
(* Bounds of the model. *)

\* Largest number of DOM nodes (images plus their ancestors) the page renders.
MaxNodes == 4

\* Longest channel name, in characters, handed to normalizeChannelName.
MaxNameLen == 3

\* Longest list of discovered names handed to logAvailableChannels (the list
\* of the documented example is added to these).
MaxChannels == 2

----------------------------------------------------------------------------
(* Values. *)

\* JavaScript null / undefined for a ClickTarget.
NoTarget == [x |-> -1, y |-> -1]

\* A ChannelSelectorResult: { success: true } or { reason, success: false }.
Success == [success |-> TRUE]

Failure(reason) == [success |-> FALSE, reason |-> reason]

\* No result (the call is running, or ended by an exception).
NoResult == [pending |-> TRUE]

\* The absent channelSelector / playSelector of a profile.
Absent == "<absent>"

\* The only slug the profiles of the model select.
Slug == "espn"

\* The selector of the confirmation ("play") element.
PlaySelectorValue == "button.play"


----------------------------------------------------------------------------
(* The page: the document the Locate evaluation runs against. *)

\* An image: the slugs its src URL contains, its bounding box and its ancestors
\* from the parent upwards, document.body excluded.
Image(src, w, h) == [src |-> src, w |-> w, h |-> h, ancestors |-> <<>>]

ImageKinds ==
    { Image({}, 30, 30),        \* src does not contain the slug
      Image({Slug}, 0, 0),      \* src matches, not laid out
      Image({Slug}, 30, 30) }   \* src matches, rendered

Element(tag, role, onclick, w, h, cursor) ==
    [tag |-> tag, role |-> role, onclick |-> onclick, w |-> w, h |-> h, cursor |-> cursor]

AncestorKinds ==
    { Element("A", "", FALSE, 30, 30, "auto"),
      Element("BUTTON", "", FALSE, 0, 0, "auto"),
      Element("DIV", "button", FALSE, 10, 10, "auto"),
      Element("DIV", "", TRUE, 30, 0, "auto"),
      Element("DIV", "", FALSE, 30, 30, "pointer"),
      Element("DIV", "", FALSE, 10, 10, "pointer"),
      Element("DIV", "", FALSE, 30, 30, "auto") }

RECURSIVE NodeCount(_)
NodeCount(images) ==
    IF images = <<>> THEN 0
    ELSE 1 + Len(Head(images).ancestors) + NodeCount(Tail(images))

\* getBoundingClientRect of the j-th ancestor of the i-th image (j = 0: the image):
\* boxes of different elements start at different points.
RectX(i) == 100 * i

RectY(j) == 100 * j

\* { x: rect.x + (rect.width / 2), y: rect.y + (rect.height / 2) }
Center(e, i, j) == [x |-> RectX(i) + (e.w \div 2), y |-> RectY(j) + (e.h \div 2)]

\* (rect.width > 0) && (rect.height > 0)
HasDimensions(e) == (e.w > 0) /\ (e.h > 0)

\* tag A or BUTTON, role="button", or an onclick attribute.
IsSemanticClickable(e) ==
    (e.tag = "A") \/ (e.tag = "BUTTON") \/ (e.role = "button") \/ e.onclick

\* The nearest cursor:pointer ancestor with reasonable dimensions.
IsPointerFallback(e) == (e.w > 20) /\ (e.h > 20) /\ (e.cursor = "pointer")

\* Variant: the first pointer-cursor ancestor is returned as soon as the walk
\* meets it, before any semantic ancestor above it is looked at.
RECURSIVE Walk_PointerFirst(_, _, _, _)
Walk_PointerFirst(anc, i, j, fallback) ==
    IF j > Len(anc) THEN NoTarget
    ELSE IF IsPointerFallback(anc[j]) THEN Center(anc[j], i, j)
    ELSE IF IsSemanticClickable(anc[j]) /\ HasDimensions(anc[j]) THEN Center(anc[j], i, j)
    ELSE Walk_PointerFirst(anc, i, j + 1, fallback)

\* The ancestor walk of one image: j is the ancestor looked at, fallback the
\* index of pointerFallback (0: null).
RECURSIVE Walk(_, _, _, _)
Walk(anc, i, j, fallback) ==
    IF j > Len(anc)
    THEN IF (fallback # 0) /\ HasDimensions(anc[fallback])
         THEN Center(anc[fallback], i, fallback)
         ELSE NoTarget
    ELSE IF IsSemanticClickable(anc[j]) /\ HasDimensions(anc[j])
         THEN Center(anc[j], i, j)
         ELSE Walk(anc, i, j + 1,
                   IF (fallback = 0) /\ IsPointerFallback(anc[j]) THEN j ELSE fallback)

\* The loop over document.querySelectorAll("img"), from image i on.
RECURSIVE LocateFrom(_, _, _)
LocateFrom(images, slug, i) ==
    IF i > Len(images) THEN NoTarget
    ELSE IF (slug \in images[i].src) /\ HasDimensions(images[i])
         THEN LET t == Walk(images[i].ancestors, i, 1, 0)
              IN  IF t # NoTarget THEN t ELSE LocateFrom(images, slug, i + 1)
         ELSE LocateFrom(images, slug, i + 1)

\* The function evaluated in the page by step 1 of the tile strategy.
Locate(images, slug) == LocateFrom(images, slug, 1)

\* The confirmation element as one read finds it: absent, or its bounding box.
NoButton == [present |-> FALSE, x |-> 0, y |-> 0, w |-> 0, h |-> 0]

Button(x, y, w, h) == [present |-> TRUE, x |-> x, y |-> y, w |-> w, h |-> h]

PlayButtonStates ==
    { NoButton,
      Button(200, 300, 40, 20),
      Button(200, 340, 40, 20),    \* the layout shifted
      Button(200, 300, 0, 20) }    \* in the DOM, no renderable width

\* Variant: the center is returned whatever the size of the box.
ReadPlayTarget_IgnoresBox(button) ==
    IF ~button.present THEN NoTarget
    ELSE [x |-> button.x + (button.w \div 2), y |-> button.y + (button.h \div 2)]

\* The function evaluated in the page at the start of every attempt.
ReadPlayTarget(button) ==
    IF ~button.present THEN NoTarget
    ELSE IF (button.w > 0) /\ (button.h > 0)
         THEN [x |-> button.x + (button.w \div 2), y |-> button.y + (button.h \div 2)]
         ELSE NoTarget


----------------------------------------------------------------------------
(* The provider caches: module-level state of tuning/hbo, hulu and sling. *)

Providers == { "hbo", "hulu", "sling" }

\* Every provider cache empty, as when the modules are loaded.
EmptyCaches == [p \in Providers |-> {}]

\* The cache-reset hooks of the three tuning modules.
clearHboCache(c) == [c EXCEPT !["hbo"] = {}]

clearHuluCache(c) == [c EXCEPT !["hulu"] = {}]

clearSlingCache(c) == [c EXCEPT !["sling"] = {}]

\* Variant: one of the hooks is not called.
clearChannelSelectionCaches_SkipsSling(c) == clearHuluCache(clearHboCache(c))

\* clearChannelSelectionCaches(): the three hooks, one after the other.
clearChannelSelectionCaches(c) == clearSlingCache(clearHuluCache(clearHboCache(c)))

\* The provider whose cache a strategy of the registry writes.
CacheOwner == [hboGrid |-> "hbo", guideGrid |-> "hulu", slingGrid |-> "sling"]

\* No clearChannelSelectionCaches call has been made since a cache was last
\* written: calls counts the calls in a row (2 stands for two or more),
\* before holds the caches the first of them found, once those it left.
NeverCleared == [calls |-> 0, before |-> EmptyCaches, once |-> EmptyCaches]

----------------------------------------------------------------------------
(* Strings.  A string is the sequence of its characters, so that trimming,  *)
(* replacing and lowercasing are computed character by character.           *)

NBSP == "<nbsp>"    \* U+00A0
TAB == "<tab>"      \* U+0009

\* The characters \s matches and trim() removes, as far as the model has them.
WhitespaceChars == { " ", TAB, NBSP }

IsWhitespace(c) == c \in WhitespaceChars

UpperLetters ==
    << "A", "B", "C", "D", "E", "F", "G", "H", "I", "J", "K", "L", "M",
       "N", "O", "P", "Q", "R", "S", "T", "U", "V", "W", "X", "Y", "Z" >>

LowerLetters ==
    << "a", "b", "c", "d", "e", "f", "g", "h", "i", "j", "k", "l", "m",
       "n", "o", "p", "q", "r", "s", "t", "u", "v", "w", "x", "y", "z" >>

IsUppercase(c) == \E i \in DOMAIN UpperLetters : UpperLetters[i] = c

LowerOf(c) ==
    IF IsUppercase(c)
    THEN LowerLetters[CHOOSE i \in DOMAIN UpperLetters : UpperLetters[i] = c]
    ELSE c

\* String.prototype.toLowerCase
toLowerCase(s) == [i \in DOMAIN s |-> LowerOf(s[i])]

\* s without the whitespace it starts with
RECURSIVE TrimStart(_)
TrimStart(s) ==
    IF (s # <<>>) /\ IsWhitespace(Head(s)) THEN TrimStart(Tail(s)) ELSE s

\* s without the whitespace it ends with
RECURSIVE TrimEnd(_)
TrimEnd(s) ==
    IF (s # <<>>) /\ IsWhitespace(s[Len(s)])
    THEN TrimEnd(SubSeq(s, 1, Len(s) - 1))
    ELSE s

\* String.prototype.trim
trim(s) == TrimEnd(TrimStart(s))

\* Variant: a run of whitespace is replaced by its own first character.
RECURSIVE CollapseWhitespace_KeepsFirst(_)
CollapseWhitespace_KeepsFirst(s) ==
    IF s = <<>> THEN <<>>
    ELSE IF IsWhitespace(Head(s))
         THEN << Head(s) >> \o CollapseWhitespace_KeepsFirst(TrimStart(s))
         ELSE << Head(s) >> \o CollapseWhitespace_KeepsFirst(Tail(s))

\* s.replace(/\s+/g, " "): every maximal run of whitespace becomes one space.
RECURSIVE CollapseWhitespace(_)
CollapseWhitespace(s) ==
    IF s = <<>> THEN <<>>
    ELSE IF IsWhitespace(Head(s))
         THEN << " " >> \o CollapseWhitespace(TrimStart(s))
         ELSE << Head(s) >> \o CollapseWhitespace(Tail(s))

\* name.trim().replace(/\s+/g, " ").toLowerCase()
normalizeChannelName(n) == toLowerCase(CollapseWhitespace(trim(n)))

\* The characters of the names handed to normalizeChannelName.
NameChars == { "W", "w", " ", TAB, NBSP }

\* All strings over chars of length 0..n.
StringsUpTo(chars, n) == UNION { [1..k -> chars] : k \in 0..n }

Names == StringsUpTo(NameChars, MaxNameLen)

----------------------------------------------------------------------------
(* logAvailableChannels of channelSelection.ts. *)

\* An optional argument that was not passed.
Undefined == << "<undefined>" >>

\* if(x), for a string or an array x: undefined and "" are falsy.
Truthy(x) == (x # Undefined) /\ (x # <<>>)

Digits == << "0", "1", "2", "3", "4", "5", "6", "7", "8", "9" >>

\* charCodeAt for the characters whose code the function looks at: the digits
\* are 48..57, every other character of the model stands outside that range.
CharCode(c) ==
    IF \E i \in DOMAIN Digits : Digits[i] = c
    THEN 47 + (CHOOSE i \in DOMAIN Digits : Digits[i] = c)
    ELSE 0

\* s.startsWith(prefix)
startsWith(s, prefix) ==
    (Len(prefix) <= Len(s)) /\ (SubSeq(s, 1, Len(prefix)) = prefix)

\* s.endsWith(suffix)
endsWith(s, suffix) ==
    (Len(suffix) <= Len(s)) /\ (SubSeq(s, Len(s) - Len(suffix) + 1, Len(s)) = suffix)

\* s.replace(/ \(.*\)$/, ""): the leftmost " (" from which the rest of the
\* string runs to a closing ")" at its end is where the string is cut.
RECURSIVE MatchFrom(_, _)
MatchFrom(s, k) ==
    IF k + 2 > Len(s) THEN 0
    ELSE IF (s[k] = " ") /\ (s[k + 1] = "(") /\ (s[Len(s)] = ")") THEN k
    ELSE MatchFrom(s, k + 1)

StripParenthetical(s) ==
    IF MatchFrom(s, 1) = 0 THEN s ELSE SubSeq(s, 1, MatchFrom(s, 1) - 1)

\* Variant: any character after the space counts, not only a digit.
PrefixDigitMatch_AnyCharacter(lower, sel) ==
    startsWith(lower, sel \o << " " >>) /\ (Len(lower) > Len(sel) + 1)

\* lower.startsWith(sel + " ") && lower.length > sel.length + 1 &&
\* 48 <= lower.charCodeAt(sel.length + 1) <= 57
PrefixDigitMatch(lower, sel) ==
    /\ startsWith(lower, sel \o << " " >>)
    /\ Len(lower) > Len(sel) + 1
    /\ CharCode(lower[Len(sel) + 2]) >= 48
    /\ CharCode(lower[Len(sel) + 2]) <= 57

\* knownSelectors.some(...) for one discovered name
Covered(n, knownSelectors) ==
    LET lower == toLowerCase(n)
        stripped == StripParenthetical(lower)
    IN  \E sel \in knownSelectors : (stripped = sel) \/ PrefixDigitMatch(lower, sel)

\* The preset channels: key and channelSelector of each entry.
Key_ESPN_YTTV == << "e", "s", "p", "n", "-", "y", "t", "t", "v" >>
Key_LOCAL_YTTV == << "l", "o", "c", "a", "l", "-", "y", "t", "t", "v" >>
Key_CNN_HULU == << "c", "n", "n", "-", "h", "u", "l", "u" >>
Suffix_YTTV == << "-", "y", "t", "t", "v" >>
Suffix_HULU == << "-", "h", "u", "l", "u" >>

N_ESPN == << "E", "S", "P", "N" >>
N_ESPN_2 == << "E", "S", "P", "N", " ", "2" >>
N_ESPN_News == << "E", "S", "P", "N", " ", "N", "e", "w", "s" >>
N_ESPN_West == << "E", "S", "P", "N", " ", "(", "W", "e", "s", "t", ")" >>
N_ESPN__2 == << "E", "S", "P", "N", " ", " ", "2" >>
N_ESPN2 == << "E", "S", "P", "N", "2" >>
N_ESPN_HD_West == << "E", "S", "P", "N", " ", "(", "H", "D", ")", " ", "(", "W", "e", "s", "t", ")" >>
N_ESPN_2_West == << "E", "S", "P", "N", " ", "2", " ", "(", "W", "e", "s", "t", ")" >>
N_CNN == << "C", "N", "N" >>

CHANNELS ==
    { [key |-> Key_ESPN_YTTV, channelSelector |-> N_ESPN],
      [key |-> Key_LOCAL_YTTV, channelSelector |-> Undefined],
      [key |-> Key_CNN_HULU, channelSelector |-> N_CNN] }

\* The lowercased selectors of the presets whose key ends with the suffix
\* (an entry without selector gives "" and is dropped), then the lowercased
\* additional names, none of them dropped.
KnownSelectors(presetSuffix, additionalKnownNames) ==
    LET selectorOf(ch) == IF ch.channelSelector = Undefined THEN <<>> ELSE ch.channelSelector
        presets == { toLowerCase(selectorOf(ch)) : ch \in { c \in CHANNELS : endsWith(c.key, presetSuffix) } }
        extra == IF additionalKnownNames # Undefined
                 THEN { toLowerCase(additionalKnownNames[i]) : i \in DOMAIN additionalKnownNames }
                 ELSE {}
    IN  { sel \in presets : Len(sel) > 0 } \cup extra

\* availableChannels.filter(...): the names no known selector covers.
RECURSIVE FilterUncovered(_, _)
FilterUncovered(list, knownSelectors) ==
    IF list = <<>> THEN <<>>
    ELSE IF Covered(Head(list), knownSelectors)
         THEN FilterUncovered(Tail(list), knownSelectors)
         ELSE << Head(list) >> \o FilterUncovered(Tail(list), knownSelectors)

\* list.join(", ")
RECURSIVE Join(_)
Join(list) ==
    IF list = <<>> THEN <<>>
    ELSE IF Len(list) = 1 THEN list[1]
    ELSE list[1] \o << ",", " " >> \o Join(Tail(list))

\* filteredChannels and countLabel of a call; countLabel "uncovered (n of m)"
\* is the tuple <<"uncovered", n, m>>, countLabel String(n) the tuple <<n>>.
FilteredChannels(o) ==
    IF Truthy(o.presetSuffix)
    THEN FilterUncovered(o.availableChannels,
                         KnownSelectors(o.presetSuffix, o.additionalKnownNames))
    ELSE o.availableChannels

CountLabel(o) ==
    IF Truthy(o.presetSuffix)
    THEN << "uncovered", Len(FilteredChannels(o)), Len(o.availableChannels) >>
    ELSE << Len(FilteredChannels(o)) >>

\* Variant: the second early return is missing.
NothingToLog_Never(filtered) == FALSE

\* filteredChannels.length === 0
NothingToLog(filtered) == Len(filtered) = 0

\* The LOG.warn calls of logAvailableChannels(o).
WarningsOf(o) ==
    IF Len(o.availableChannels) = 0 THEN <<>>
    ELSE IF NothingToLog(FilteredChannels(o)) THEN <<>>
    ELSE << [ level |-> "warn", channelName |-> o.channelName,
              countLabel |-> CountLabel(o), list |-> Join(FilteredChannels(o)) ] >>

DiscoveredNames ==
    { N_ESPN, N_ESPN_2, N_ESPN_News, N_ESPN_West, N_ESPN__2, N_ESPN2,
      N_ESPN_HD_West, N_ESPN_2_West, N_CNN }

\* The discovered names of the documented example.
ExampleChannels == << N_ESPN, N_ESPN_2, N_ESPN_News, N_ESPN_West >>

ChannelLists == StringsUpTo(DiscoveredNames, MaxChannels) \cup { ExampleChannels }

OptionSets ==
    [ availableChannels : ChannelLists,
      presetSuffix : { Undefined, <<>>, Suffix_YTTV, Suffix_HULU },
      additionalKnownNames : { Undefined, <<>>, << N_CNN >>, << N_ESPN_West >> },
      channelName : { toLowerCase(N_ESPN) },
      returned : { FALSE } ]

\* No logAvailableChannels call is being looked at.
NoOptions ==
    [ availableChannels |-> <<>>, presetSuffix |-> Undefined,
      additionalKnownNames |-> Undefined, channelName |-> <<>>, returned |-> FALSE ]

\* No normalizeChannelName call has returned. Afterwards value is what the
\* last call returned, and again says that its argument was itself a result.
NotNormalized == [done |-> FALSE, again |-> FALSE, value |-> <<>>]

----------------------------------------------------------------------------
(* The coordinator: channelSelection.ts. *)

\* const strategies: the registry, from strategy name to the imported strategy.
\* The coordinator types every entry as a ChannelStrategyFn and calls it at line
\* 221; tileClick.ts:203 exports tileClickStrategy as { execute, usesImageSlug },
\* with execute = tileClickStrategyFn.  Invoking the tileClick entry is modelled
\* as running tileClickStrategyFn, the function the entry carries.
strategies ==
    [ foxGrid |-> "foxGridStrategy",
      guideGrid |-> "guideGridStrategy",
      hboGrid |-> "hboGridStrategy",
      slingGrid |-> "slingGridStrategy",
      thumbnailRow |-> "thumbnailRowStrategy",
      tileClick |-> "tileClickStrategy",
      youtubeGrid |-> "youtubeGridStrategy" ]

\* const skipImagePolling
skipImagePolling == { "foxGrid", "guideGrid", "hboGrid", "slingGrid", "youtubeGrid" }

\* The strategy identifiers of the profiles: the no-op value, the registered
\* ones and one that is not registered.
StrategyIds == { "none", "bogusGrid" } \cup DOMAIN strategies

Profiles ==
    [ strategy : StrategyIds,
      channelSelector : { Absent, Slug },
      playSelector : { Absent, PlaySelectorValue } ]

NoProfile == [strategy |-> "none", channelSelector |-> Absent, playSelector |-> Absent]

\* The type guard of the types module: the profile has a channelSelector.
isChannelSelectionProfile(p) == p.channelSelector # Absent

\* Variant: the no-op test asks for both conditions instead of either.
NoSelectionNeeded_RequiresBoth(p) == (p.strategy = "none") /\ ~isChannelSelectionProfile(p)

\* (channelSelection.strategy === "none") || !isChannelSelectionProfile(profile)
NoSelectionNeeded(p) == (p.strategy = "none") \/ ~isChannelSelectionProfile(p)

\* Variant: the poll follows the usesImageSlug flag of the registered entry.
PollsForImage_UsesImageSlug(p) == p.strategy \in { "thumbnailRow", "tileClick" }

\* !skipImagePolling.includes(channelSelection.strategy)
PollsForImage(p) == p.strategy \notin skipImagePolling

\* Variant: a timed-out poll ends the call.
AfterPoll_TimeoutFatal(ready) == IF ready THEN "lookup" ELSE "done"

\* Variant: the poll has no timeout and an image that never loads blocks it.
AfterPoll_NeverSettles(ready) == IF ready THEN "lookup" ELSE "pollPending"

\* Where the call goes after page.waitForFunction: the catch block is empty, so
\* a timeout proceeds to the dispatch like a loaded image does.
AfterPoll(ready) == "lookup"

\* !strategyFn, for strategyFn = strategies[channelSelection.strategy]
IsUnknownStrategy(id) == id \notin DOMAIN strategies

\* Variant: the unknown strategy is passed over as a success.
UnknownStrategyResult_Success == Success

\* return { reason: "Unknown channel selection strategy.", success: false }
UnknownStrategyResult == Failure(<<"Unknown channel selection strategy.">>)

\* One operation of the call: what was done, on what, where and whether it
\* completed (FALSE: it timed out or failed).
Op(op, note, at, ok) == [op |-> op, note |-> note, at |-> at, ok |-> ok]

\* One LOG call.
LogLine(level, msg, arg) == [level |-> level, msg |-> msg, arg |-> arg]

\* The call ends by an exception that nothing catches.
Throw ==
    /\ pc' = "done"
    /\ outcome' = "thrown"
    /\ result' = NoResult

\* A strategy function returns r to line 221 of the coordinator.
StrategyReturns(r) ==
    /\ pc' = "return"
    /\ stratResult' = r

\* selectChannel, up to the first await.
StartCall ==
    /\ pc \in { "idle", "done" }
    /\ \E p \in Profiles :
        /\ profile' = p
        /\ IF NoSelectionNeeded(p)
           THEN /\ pc' = "done"
                /\ outcome' = "returned"
                /\ result' = Success
           ELSE /\ pc' = IF PollsForImage(p) THEN "poll" ELSE "lookup"
                /\ outcome' = "none"
                /\ result' = NoResult
    /\ dom' = <<>>
    /\ tileTarget' = NoTarget
    /\ playTarget' = NoTarget
    /\ attempt' = 0
    /\ clickArg' = NoTarget
    /\ clickSite' = "none"
    /\ stratResult' = NoResult
    /\ trace' = <<>>
    /\ log' = <<>>
    /\ clickReturned' = FALSE
    /\ UNCHANGED auxVars

\* await page.waitForFunction(...) inside try { } catch { }.
PollImage ==
    /\ pc = "poll"
    /\ \E ready \in BOOLEAN :
        /\ trace' = Append(trace, Op("waitForFunction", profile.channelSelector, NoTarget, ready))
        /\ pc' = AfterPoll(ready)
    /\ UNCHANGED <<profile, dom, tileTarget, playTarget, attempt, clickArg, clickSite,
                   stratResult, result, outcome, log>>
    /\ UNCHANGED clickReturned
    /\ UNCHANGED auxVars

\* The registry lookup and, for a registered strategy, its invocation.
Dispatch ==
    /\ pc = "lookup"
    /\ IF IsUnknownStrategy(profile.strategy)
       THEN /\ log' = Append(log, LogLine("warn", "Unknown channel selection strategy: %s.",
                                          profile.strategy))
            /\ trace' = Append(trace, Op("lookup", profile.strategy, NoTarget, FALSE))
            /\ pc' = "done"
            /\ outcome' = "returned"
            /\ result' = UnknownStrategyResult
       ELSE /\ trace' = trace \o << Op("lookup", profile.strategy, NoTarget, TRUE),
                                    Op("invoke", strategies[profile.strategy], NoTarget, TRUE) >>
            /\ pc' = IF strategies[profile.strategy] = "tileClickStrategy"
                     THEN "locate" ELSE "strategy"
            /\ UNCHANGED <<log, outcome, result>>
    /\ UNCHANGED <<profile, dom, tileTarget, playTarget, attempt, clickArg, clickSite,
                   stratResult>>
    /\ UNCHANGED clickReturned
    /\ UNCHANGED auxVars

\* The results a strategy of another tuning module can return.
OtherResults == { Success, Failure(<<"Channel not found in guide.">>) }

\* A strategy of another tuning module runs and returns its result.
OtherStrategy ==
    /\ pc = "strategy"
    /\ \E r \in OtherResults : StrategyReturns(r)
    /\ UNCHANGED <<profile, dom, tileTarget, playTarget, attempt, clickArg, clickSite,
                   result, outcome, trace, log>>
    /\ UNCHANGED clickReturned
    /\ UNCHANGED auxVars

\* Variant: the coordinator replaces a strategy's failure by its own.
CoordinatorResult_OwnFailure(r) ==
    IF r.success THEN r ELSE Failure(<<"Channel selection failed.">>)

\* return result: what selectChannel makes of the strategy's result.
CoordinatorResult(r) == r

\* Variant: the coordinator resets the provider caches when a call returns.
CachesAfterCall_Reset(c) == [p \in DOMAIN c |-> {}]

\* The provider caches when selectChannel returns: the function has no
\* statement that reads or writes them.
CachesAfterCall(c) == c

\* const result = await strategyFn(page, profile); return result;
ReturnResult ==
    /\ pc = "return"
    /\ result' = CoordinatorResult(stratResult)
    /\ outcome' = "returned"
    /\ pc' = "done"
    /\ UNCHANGED <<profile, dom, tileTarget, playTarget, attempt, clickArg, clickSite,
                   stratResult, trace, log>>
    /\ UNCHANGED clickReturned
    /\ caches' = CachesAfterCall(caches)
    /\ UNCHANGED <<clearedFrom, options, warnings, name, normalized>>


\* A strategy that keeps a provider cache runs: it caches what it discovered
\* for the selector and returns its result.
CachingStrategy ==
    /\ pc = "strategy"
    /\ profile.strategy \in DOMAIN CacheOwner
    /\ caches' = [caches EXCEPT ![CacheOwner[profile.strategy]] = @ \cup { profile.channelSelector }]
    /\ clearedFrom' = NeverCleared
    /\ \E r \in OtherResults : StrategyReturns(r)
    /\ UNCHANGED <<profile, dom, tileTarget, playTarget, attempt, clickArg, clickSite,
                   result, outcome, trace, log>>
    /\ UNCHANGED clickReturned
    /\ UNCHANGED <<options, warnings, name, normalized>>

\* clearChannelSelectionCaches(), called by the session between two calls.
ClearCaches ==
    /\ pc \in { "idle", "done" }
    /\ caches' = clearChannelSelectionCaches(caches)
    /\ clearedFrom' =
         [ calls |-> IF clearedFrom.calls < 2 THEN clearedFrom.calls + 1 ELSE 2,
           before |-> IF clearedFrom.calls = 0 THEN caches ELSE clearedFrom.before,
           once |-> IF clearedFrom.calls = 0 THEN caches' ELSE clearedFrom.once ]
    /\ UNCHANGED callVars
    /\ UNCHANGED <<options, warnings, name, normalized>>

----------------------------------------------------------------------------
(* The shared click primitive: scrollAndClick of channelSelection.ts. *)

\* The tile strategy calls scrollAndClick(page, target) from call site `site`.
CallScrollAndClick(target, site) ==
    /\ clickArg' = target
    /\ clickSite' = site
    /\ pc' = "settle"

\* Variant: the coordinates are passed to the mouse in the wrong order.
ClickPoint_Swapped(target) == [x |-> target.y, y |-> target.x]

\* page.mouse.click(target.x, target.y): the point the mouse clicks.
ClickPoint(target) == [x |-> target.x, y |-> target.y]

\* await delay(200)
ClickSettle ==
    /\ pc = "settle"
    /\ trace' = Append(trace, Op("delay", clickSite, NoTarget, TRUE))
    /\ pc' = "click"
    /\ UNCHANGED <<profile, dom, tileTarget, playTarget, attempt, clickArg, clickSite,
                   stratResult, result, outcome, log>>
    /\ clickReturned' = FALSE
    /\ UNCHANGED auxVars

----------------------------------------------------------------------------
(* The tile strategy: tileClickStrategyFn of tileClick.ts. *)

MAX_PLAY_CLICK_ATTEMPTS == 3

\* Variant: the null check of the tile target is missing.
TileMissing_Never(t) == FALSE

\* !tileTarget
TileMissing(t) == t = NoTarget

\* Variant: the confirm phase runs whatever the profile declares.
NeedsConfirm_Always(p) == TRUE

\* if(playButtonSelector)
NeedsConfirm(p) == p.playSelector # Absent

\* Variant: the loop condition is off by one.
LoopContinues_OffByOne(a) == a <= MAX_PLAY_CLICK_ATTEMPTS

\* attempt < MAX_PLAY_CLICK_ATTEMPTS, the condition of the retry loop
LoopContinues(a) == a < MAX_PLAY_CLICK_ATTEMPTS

\* Variant: the disappearance heuristic starts one attempt late.
DisappearedBetweenAttempts_Late(a) == a > 1

\* Variant: the disappearance heuristic applies to the first attempt too.
DisappearedBetweenAttempts_Always(a) == a >= 0

\* if(attempt > 0), on a read that gave no target
DisappearedBetweenAttempts(a) == a > 0

\* attempt < (MAX_PLAY_CLICK_ATTEMPTS - 1), the condition of the retry log line
LogsRetry(a) == a < (MAX_PLAY_CLICK_ATTEMPTS - 1)

\* Variant: a missing tile is reported as success.
TileNotFoundResult_Success == Success

TileNotFoundResult == Failure(<<"Channel tile not found in page images.">>)

PlayNeverAppearedResult == Failure(<<"Play button did not appear after clicking channel tile.">>)

\* Variant: the first-read failure reuses the reason of the Locate failure.
PlayNoDimensionsResult_SameAsNotFound == Failure(<<"Channel tile not found in page images.">>)

PlayNoDimensionsResult == Failure(<<"Play button found but has no dimensions.">>)

PlayExhaustedResult ==
    Failure(<<"Play button click did not dismiss the modal after ",
              ToString(MAX_PLAY_CLICK_ATTEMPTS), " attempts.">>)

\* Variant: the coordinates of the first read are kept for the later clicks.
PlayClickTarget_Stale(fresh, previous) == IF previous # NoTarget THEN previous ELSE fresh

\* await scrollAndClick(page, playTarget): the target is the one just read
\* (previous: playTarget of the attempt before).
PlayClickTarget(fresh, previous) == fresh

\* Variant: the verification wait's success is ignored and the loop goes on.
VerifiedDismissed_Ignored(hidden) == FALSE

\* The try block of the verification wait completes: return { success: true }.
VerifiedDismissed(hidden) == hidden

\* Variant: the catch block of the appearance wait does not return.
AfterAppearWait_SwallowsTimeout(appeared) == "loop"

\* What the strategy does when page.waitForSelector(playButtonSelector) ends:
\* the catch block returns the failure, otherwise the retry loop starts.
AfterAppearWait(appeared) == IF appeared THEN "loop" ELSE "fail"

\* The page renders one more image while the Locate evaluation is pending.
RenderImage ==
    /\ pc = "locate"
    /\ NodeCount(dom) < MaxNodes
    /\ \E img \in ImageKinds : dom' = Append(dom, img)
    /\ UNCHANGED <<pc, profile, tileTarget, playTarget, attempt, clickArg, clickSite,
                   stratResult, result, outcome, trace, log>>
    /\ UNCHANGED clickReturned
    /\ UNCHANGED auxVars

\* The page renders one more ancestor above the last image (one whose src
\* matches: the ancestors of the other images are never looked at).
RenderAncestor ==
    /\ pc = "locate"
    /\ NodeCount(dom) < MaxNodes
    /\ dom # <<>>
    /\ Slug \in dom[Len(dom)].src
    /\ \E e \in AncestorKinds :
        dom' = [dom EXCEPT ![Len(dom)].ancestors = Append(@, e)]
    /\ UNCHANGED <<pc, profile, tileTarget, playTarget, attempt, clickArg, clickSite,
                   stratResult, result, outcome, trace, log>>
    /\ UNCHANGED clickReturned
    /\ UNCHANGED auxVars

\* const tileTarget = await evaluateWithAbort(page, ..., [channelSlug]): the
\* evaluation gives the target, or is aborted or fails and throws.
TileLocate ==
    /\ pc = "locate"
    /\ \/ /\ tileTarget' = Locate(dom, profile.channelSelector)
          /\ trace' = Append(trace, Op("evaluate", "locate", tileTarget', TRUE))
          /\ pc' = "located"
          /\ UNCHANGED <<result, outcome>>
       \/ /\ trace' = Append(trace, Op("evaluate", "locate", NoTarget, FALSE))
          /\ Throw
          /\ UNCHANGED tileTarget
    /\ UNCHANGED <<profile, dom, playTarget, attempt, clickArg, clickSite, stratResult, log>>
    /\ UNCHANGED clickReturned
    /\ UNCHANGED auxVars

\* if(!tileTarget) return the failure; else await scrollAndClick(page, tileTarget).
TileBranch ==
    /\ pc = "located"
    /\ IF TileMissing(tileTarget)
       THEN /\ StrategyReturns(TileNotFoundResult)
            /\ UNCHANGED <<clickArg, clickSite>>
       ELSE /\ CallScrollAndClick(tileTarget, "tile")
            /\ UNCHANGED stratResult
    /\ UNCHANGED <<profile, dom, tileTarget, playTarget, attempt, result, outcome, trace, log>>
    /\ UNCHANGED clickReturned
    /\ UNCHANGED auxVars

\* await page.mouse.click(target.x, target.y); return true: back in the tile
\* strategy, after the tile click the profile decides whether a confirmation
\* follows, after a play click the verification wait follows.  A click that
\* fails throws.  The page answers the tile click by leaving the shelf view
\* (the modal or the player opens): the images Locate looked at are gone.
MouseClick ==
    /\ pc = "click"
    /\ \/ /\ trace' = Append(trace, Op("click", clickSite, ClickPoint(clickArg), TRUE))
          /\ clickReturned' = TRUE
          /\ dom' = <<>>
          /\ IF clickSite = "tile"
             THEN IF NeedsConfirm(profile)
                  THEN pc' = "waitPlay" /\ UNCHANGED stratResult
                  ELSE StrategyReturns(Success)
             ELSE pc' = "verify" /\ UNCHANGED stratResult
          /\ UNCHANGED <<result, outcome>>
       \/ /\ trace' = Append(trace, Op("click", clickSite, ClickPoint(clickArg), FALSE))
          /\ Throw
          /\ UNCHANGED <<stratResult, dom, clickReturned>>
    /\ UNCHANGED <<profile, tileTarget, playTarget, attempt, clickArg, clickSite, log>>
    /\ UNCHANGED auxVars

\* await page.waitForSelector(playButtonSelector, { timeout }) in try/catch.
WaitPlayAppear ==
    /\ pc = "waitPlay"
    /\ \E appeared \in BOOLEAN :
        /\ trace' = Append(trace, Op("waitForSelector", "visible", NoTarget, appeared))
        /\ IF AfterAppearWait(appeared) = "loop"
           THEN /\ pc' = "readPlay"
                /\ attempt' = 0
                /\ UNCHANGED stratResult
           ELSE /\ StrategyReturns(PlayNeverAppearedResult)
                /\ UNCHANGED attempt
    /\ UNCHANGED <<profile, dom, tileTarget, playTarget, clickArg, clickSite,
                   result, outcome, log>>
    /\ UNCHANGED clickReturned
    /\ UNCHANGED auxVars

\* One read of the play button coordinates and the branch on its result.
ReadPlay ==
    /\ pc = "readPlay"
    /\ \/ \E button \in PlayButtonStates :
            /\ playTarget' = ReadPlayTarget(button)
            /\ trace' = Append(trace, Op("evaluate",
                                         IF ~button.present THEN "play:absent"
                                         ELSE IF playTarget' = NoTarget THEN "play:nodims"
                                         ELSE "play:target",
                                         playTarget', TRUE))
            /\ IF playTarget' = NoTarget
               THEN IF DisappearedBetweenAttempts(attempt)
                    THEN /\ log' = Append(log, LogLine("debug",
                                "Play button disappeared before attempt %s. Previous click likely succeeded.",
                                ToString(attempt + 1)))
                         /\ StrategyReturns(Success)
                         /\ UNCHANGED <<clickArg, clickSite>>
                    ELSE /\ StrategyReturns(PlayNoDimensionsResult)
                         /\ UNCHANGED <<clickArg, clickSite, log>>
               ELSE /\ CallScrollAndClick(PlayClickTarget(playTarget', playTarget), "play")
                    /\ UNCHANGED <<stratResult, log>>
            /\ UNCHANGED <<result, outcome>>
       \/ /\ trace' = Append(trace, Op("evaluate", "play:failed", NoTarget, FALSE))
          /\ Throw
          /\ UNCHANGED <<playTarget, clickArg, clickSite, stratResult, log>>
    /\ UNCHANGED <<profile, dom, tileTarget, attempt>>
    /\ UNCHANGED clickReturned
    /\ UNCHANGED auxVars

\* await page.waitForSelector(playButtonSelector, { hidden: true, timeout }) in
\* try/catch, then attempt++ and the loop condition.
VerifyPlay ==
    /\ pc = "verify"
    /\ \E hidden \in BOOLEAN :
        /\ trace' = Append(trace, Op("waitForSelector", "hidden", NoTarget, hidden))
        /\ IF VerifiedDismissed(hidden)
           THEN /\ StrategyReturns(Success)
                /\ UNCHANGED <<attempt, log>>
           ELSE /\ log' = IF LogsRetry(attempt)
                          THEN Append(log, LogLine("info",
                                 "Play button click attempt %s of %s did not dismiss the modal. Retrying with fresh coordinates.",
                                 ToString(attempt + 1)))
                          ELSE log
                /\ attempt' = attempt + 1
                /\ IF LoopContinues(attempt + 1)
                   THEN pc' = "readPlay" /\ UNCHANGED stratResult
                   ELSE StrategyReturns(PlayExhaustedResult)
    /\ UNCHANGED <<profile, dom, tileTarget, playTarget, clickArg, clickSite,
                   result, outcome>>
    /\ UNCHANGED clickReturned
    /\ UNCHANGED auxVars

----------------------------------------------------------------------------
(* The specification. *)

CallInit ==
    /\ pc = "idle"
    /\ profile = NoProfile
    /\ dom = <<>>
    /\ tileTarget = NoTarget
    /\ playTarget = NoTarget
    /\ attempt = 0
    /\ clickArg = NoTarget
    /\ clickSite = "none"
    /\ stratResult = NoResult
    /\ result = NoResult
    /\ outcome = "none"
    /\ trace = <<>>
    /\ log = <<>>
    /\ clickReturned = FALSE

Init ==
    /\ CallInit
    /\ caches = EmptyCaches
    /\ clearedFrom = NeverCleared
    /\ options = NoOptions
    /\ warnings = <<>>
    /\ name = <<>>
    /\ normalized = NotNormalized

Next ==
    \/ StartCall
    \/ PollImage
    \/ Dispatch
    \/ OtherStrategy
    \/ ReturnResult
    \/ RenderImage
    \/ RenderAncestor
    \/ TileLocate
    \/ TileBranch
    \/ ClickSettle
    \/ MouseClick
    \/ WaitPlayAppear
    \/ ReadPlay
    \/ VerifyPlay

Spec == Init /\ [][Next]_vars

\* One step of the running call: an await settles (a timer fires, the page
\* answers) and the code runs on to its next await or to its return.
CallStep ==
    \/ PollImage
    \/ Dispatch
    \/ OtherStrategy
    \/ ReturnResult
    \/ TileLocate
    \/ TileBranch
    \/ ClickSettle
    \/ MouseClick
    \/ WaitPlayAppear
    \/ ReadPlay
    \/ VerifyPlay

\* normalizeChannelName(name), for any name.
NormalizeName ==
    /\ ~normalized.done
    /\ normalized' = [done |-> TRUE, again |-> FALSE, value |-> normalizeChannelName(name)]
    /\ UNCHANGED name
    /\ UNCHANGED callVars
    /\ UNCHANGED <<caches, clearedFrom, options, warnings>>

\* normalizeChannelName applied to the result of the call before.
NormalizeAgain ==
    /\ normalized.done
    /\ ~normalized.again
    /\ name' = normalized.value
    /\ normalized' = [done |-> TRUE, again |-> TRUE, value |-> normalizeChannelName(normalized.value)]
    /\ UNCHANGED callVars
    /\ UNCHANGED <<caches, clearedFrom, options, warnings>>

NormalizeInit ==
    /\ CallInit
    /\ caches = EmptyCaches
    /\ clearedFrom = NeverCleared
    /\ options = NoOptions
    /\ warnings = <<>>
    /\ name \in Names
    /\ normalized = NotNormalized

NormalizeNext == NormalizeName \/ NormalizeAgain

SpecNormalize == NormalizeInit /\ [][NormalizeNext]_vars

\* logAvailableChannels(options), whole.
LogAvailableChannels ==
    /\ ~options.returned
    /\ warnings' = warnings \o WarningsOf(options)
    /\ options' = [options EXCEPT !.returned = TRUE]
    /\ UNCHANGED callVars
    /\ UNCHANGED <<caches, clearedFrom, name, normalized>>

LogInit ==
    /\ CallInit
    /\ caches = EmptyCaches
    /\ clearedFrom = NeverCleared
    /\ options \in OptionSets
    /\ warnings = <<>>
    /\ name = <<>>
    /\ normalized = NotNormalized

LogNext == LogAvailableChannels

SpecLog == LogInit /\ [][LogNext]_vars

\* The calls of a session that resets the provider caches between them; the
\* page of this session shows no image.
CachesNext ==
    \/ StartCall
    \/ PollImage
    \/ Dispatch
    \/ OtherStrategy
    \/ CachingStrategy
    \/ ReturnResult
    \/ TileLocate
    \/ TileBranch
    \/ ClearCaches

SpecCaches == Init /\ [][CachesNext]_vars

\* The largest document of the termination runs. Only Locate reads the
\* document, in one evaluation, so the steps of a call do not depend on its
\* size: two nodes give both a tile that is found and one that is not.
LiveNodes == 2

LiveRenderImage == RenderImage /\ (NodeCount(dom') <= LiveNodes)

LiveRenderAncestor == RenderAncestor /\ (NodeCount(dom') <= LiveNodes)

LiveNext ==
    \/ StartCall
    \/ LiveRenderImage
    \/ LiveRenderAncestor
    \/ CallStep

\* The calls under fair timers: a pending await is eventually settled.
LiveSpec == Init /\ [][LiveNext]_vars /\ WF_vars(CallStep)


----------------------------------------------------------------------------
(* Vocabulary of the properties. *)

\* The positions of the trace that hold operation op with note in notes.
Positions(op, notes) ==
    { i \in DOMAIN trace : (trace[i].op = op) /\ (trace[i].note \in notes) }

PlayReadNotes == { "play:absent", "play:nodims", "play:target", "play:failed" }

PageOps == { "waitForFunction", "evaluate", "delay", "click", "waitForSelector" }

\* The operations on the page, of any kind.
PageOpPositions == { i \in DOMAIN trace : trace[i].op \in PageOps }

Invocations == { i \in DOMAIN trace : trace[i].op = "invoke" }

Lookups == { i \in DOMAIN trace : trace[i].op = "lookup" }

TileClicks == Positions("click", { "tile" })

PlayClicks == Positions("click", { "play" })

PlayReads == Positions("evaluate", PlayReadNotes)

AppearWaits == Positions("waitForSelector", { "visible" })

VerifyWaits == Positions("waitForSelector", { "hidden" })

Warnings == { i \in DOMAIN log : log[i].level = "warn" }

\* The call has ended by returning r to the caller.
Returned(r) == (pc = "done") /\ (outcome = "returned") /\ (result = r)

\* The strategy has returned r and nothing happened after trace position i.
StrategyEndedAt(i, r) ==
    /\ i = Len(trace)
    /\ pc \in { "return", "done" }
    /\ stratResult = r
    /\ (pc = "done") => Returned(r)

----------------------------------------------------------------------------
(* C1: a profile whose strategy is "none" or whose selector value is absent  *)
(* makes selectChannel return success with no operation at all (no poll, no  *)
(* lookup, no invocation, no evaluation, no click, no log line); a strategy  *)
(* is invoked only for a strategy other than "none" with a selector present. *)
C1_NoOpReturnsSuccessUntouched ==
    /\ ((pc # "idle") /\ ((profile.strategy = "none") \/ (profile.channelSelector = Absent)))
         => (Returned(Success) /\ (trace = <<>>) /\ (log = <<>>))
    /\ (Invocations # {})
         => ((profile.strategy # "none") /\ (profile.channelSelector # Absent))

C1_Witness ==
    /\ Returned(Success)
    /\ profile.strategy = "none"
    /\ profile.channelSelector = Slug
    /\ trace = <<>>

(* C2: a profile with a selector whose strategy is neither "none" nor a key  *)
(* of the registry makes selectChannel return the failure "Unknown channel   *)
(* selection strategy.", log exactly one warning, which names the            *)
(* identifier, and invoke no strategy.                                       *)
C2_UnknownStrategyFails ==
    ((profile.channelSelector # Absent) /\ (profile.strategy \notin ({ "none" } \cup DOMAIN strategies)))
      => /\ Invocations = {}
         /\ pc \in { "poll", "lookup", "done" }
         /\ (pc = "done") =>
              /\ Returned(Failure(<<"Unknown channel selection strategy.">>))
              /\ Cardinality(Warnings) = 1
              /\ \A i \in Warnings : log[i].arg = profile.strategy
              /\ Len(log) = 1

C2_Witness ==
    /\ pc = "done"
    /\ profile.strategy = "bogusGrid"
    /\ profile.channelSelector = Slug
    /\ result = Failure(<<"Unknown channel selection strategy.">>)
    /\ Cardinality(Warnings) = 1

(* C3: no call of selectChannel ends by an exception, whatever the page      *)
(* does, a failing page evaluation or mouse click included.                  *)
C3_NeverThrows == outcome # "thrown"


(* C4: when the confirmation element has obtainable geometry at every read  *)
(* and no verification wait sees it hidden, the call that returns has made   *)
(* exactly 3 reads, 3 confirmation clicks and 3 verification waits and       *)
(* returns the failure that carries the attempt count 3; no execution issues *)
(* more than 3 confirmation clicks.                                          *)
C4_ExactlyThreeAttempts ==
    /\ Cardinality(PlayClicks) <= 3
    /\ ( /\ (pc = "done") /\ (outcome = "returned")
         /\ \E i \in AppearWaits : trace[i].ok
         /\ \A i \in PlayReads : trace[i].note = "play:target"
         /\ \A i \in VerifyWaits : ~trace[i].ok )
         => /\ Cardinality(PlayReads) = 3
            /\ Cardinality(PlayClicks) = 3
            /\ Cardinality(VerifyWaits) = 3
            /\ result = Failure(<<"Play button click did not dismiss the modal after ",
                                  "3", " attempts.">>)

C4_Witness ==
    /\ Returned(Failure(<<"Play button click did not dismiss the modal after ",
                          "3", " attempts.">>))
    /\ Cardinality(PlayClicks) = 3
    /\ \A i \in PlayReads : trace[i].note = "play:target"

(* C5: a read of attempt index k > 0 that finds the confirmation element     *)
(* absent ends the strategy with success: nothing is clicked or read after   *)
(* it and the caller gets success, not a failure.                            *)
C5_AbsentOnLaterReadIsSuccess ==
    \A i \in Positions("evaluate", { "play:absent" }) :
        (\E j \in PlayReads : j < i) => StrategyEndedAt(i, Success)

C5_Witness ==
    /\ Returned(Success)
    /\ trace # <<>>
    /\ trace[Len(trace)].note = "play:absent"
    /\ Cardinality(PlayReads) = 2
    /\ \E i \in VerifyWaits : ~trace[i].ok

(* C6: a first read (attempt index 0) that gives no geometry ends the        *)
(* strategy with the failure "Play button found but has no dimensions." and  *)
(* no confirmation click is issued.                                          *)
C6_NoGeometryOnFirstReadFails ==
    \A i \in Positions("evaluate", { "play:absent", "play:nodims" }) :
        (~\E j \in PlayReads : j < i)
          => /\ StrategyEndedAt(i, Failure(<<"Play button found but has no dimensions.">>))
             /\ PlayClicks = {}

C6_Witness ==
    /\ Returned(Failure(<<"Play button found but has no dimensions.">>))
    /\ Cardinality(PlayReads) = 1
    /\ PlayClicks = {}

(* C7: when the declared confirmation element does not appear within the     *)
(* timeout, the strategy ends with the failure "Play button did not appear   *)
(* after clicking channel tile." without entering the retry loop: no read of *)
(* the confirmation element and no confirmation click.                       *)
C7_NeverAppearedFails ==
    \A i \in AppearWaits :
        (~trace[i].ok)
          => /\ StrategyEndedAt(i, Failure(<<"Play button did not appear after clicking channel tile.">>))
             /\ PlayReads = {}
             /\ PlayClicks = {}
             /\ VerifyWaits = {}

C7_Witness ==
    /\ Returned(Failure(<<"Play button did not appear after clicking channel tile.">>))
    /\ profile.playSelector = PlaySelectorValue
    /\ Cardinality(TileClicks) = 1

(* C8: with a located tile and no confirmation element in the profile, the   *)
(* strategy issues exactly one click, the tile click at the located target,  *)
(* and returns success right after it, with no wait for and no read of a     *)
(* confirmation element.                                                     *)
C8_AutoPlayClicksOnce ==
    ((pc # "idle") /\ (profile.strategy = "tileClick") /\ (profile.playSelector = Absent))
      => /\ AppearWaits \cup VerifyWaits \cup PlayReads \cup PlayClicks = {}
         /\ Cardinality(TileClicks) <= 1
         /\ \A i \in TileClicks :
              /\ trace[i].at = tileTarget
              /\ tileTarget # NoTarget
              /\ trace[i].ok => StrategyEndedAt(i, Success)
         /\ ((pc = "done") /\ (outcome = "returned") /\ (tileTarget # NoTarget))
              => ((result = Success) /\ (Cardinality(TileClicks) = 1))

C8_Witness ==
    /\ Returned(Success)
    /\ profile.strategy = "tileClick"
    /\ profile.playSelector = Absent
    /\ Cardinality(TileClicks) = 1
    /\ trace[Len(trace)].op = "click"

\* No image whose src contains the slug and that has a positive-area box has
\* an ancestor that either tier accepts.
NoUsableTile(images, slug) ==
    \A i \in DOMAIN images :
        ((slug \in images[i].src) /\ (images[i].w > 0) /\ (images[i].h > 0))
          => \A j \in DOMAIN images[i].ancestors :
               LET e == images[i].ancestors[j]
               IN  /\ ~( ((e.tag \in { "A", "BUTTON" }) \/ (e.role = "button") \/ e.onclick)
                         /\ (e.w > 0) /\ (e.h > 0) )
                   /\ ~( (e.cursor = "pointer") /\ (e.w > 20) /\ (e.h > 20) )

(* C9: Locate yields no target exactly when no matching image with a         *)
(* positive-area box has a usable ancestor in either tier, and then the      *)
(* strategy ends with the failure "Channel tile not found in page images."   *)
(* with no settle delay, no mouse click and no confirmation wait.            *)
C9_TileNotFoundFails ==
    /\ (pc = "located") => ((tileTarget = NoTarget) <=> NoUsableTile(dom, profile.channelSelector))
    /\ \A i \in Positions("evaluate", { "locate" }) :
         (trace[i].ok /\ (trace[i].at = NoTarget))
           => /\ Positions("click", { "tile", "play" }) = {}
              /\ Positions("delay", { "tile", "play" }) = {}
              /\ AppearWaits \cup VerifyWaits = {}
              /\ (pc = "located") \/ StrategyEndedAt(i, Failure(<<"Channel tile not found in page images.">>))

C9_Witness ==
    /\ Returned(Failure(<<"Channel tile not found in page images.">>))
    /\ \E i \in Positions("evaluate", { "locate" }) : trace[i].at = NoTarget
    /\ Positions("click", { "tile", "play" }) = {}
    /\ \E i \in DOMAIN dom :
         (Slug \in dom[i].src) /\ (dom[i].w > 0) /\ (dom[i].ancestors # <<>>)

(* C10: a readiness poll that timed out does not fail the call: the lookup   *)
(* follows it, a registered strategy is invoked after it, and the result     *)
(* the caller gets is the one the strategy returned.                         *)
C10_PollTimeoutIsNotFatal ==
    ((trace # <<>>) /\ (trace[1].op = "waitForFunction") /\ ~trace[1].ok)
      => /\ (Len(trace) = 1) => ((pc = "lookup") /\ (outcome = "none"))
         /\ (Len(trace) >= 2) => (trace[2].op = "lookup")
         /\ ((Len(trace) >= 3) /\ (profile.strategy \in DOMAIN strategies))
              => ((trace[3].op = "invoke") /\ (trace[3].note = strategies[profile.strategy]))
         /\ ((pc = "done") /\ (outcome = "returned") /\ (profile.strategy \in DOMAIN strategies))
              => ((result = stratResult) /\ (stratResult # NoResult))

C10_Witness ==
    /\ Returned(Success)
    /\ profile.strategy = "tileClick"
    /\ trace # <<>>
    /\ trace[1].op = "waitForFunction"
    /\ ~trace[1].ok
    /\ Cardinality(TileClicks) = 1


C12_EveryCallTerminates == (pc \notin { "idle", "done" }) ~> (pc = "done")

C12_Witness ==
    /\ pc = "done"
    /\ Cardinality(VerifyWaits) = 3
    /\ Cardinality(Positions("delay", { "tile", "play" })) = 4
    /\ trace[1].op = "waitForFunction"
    /\ ~trace[1].ok

(* C17: the readiness poll happens exactly when selection is needed and the *)
(* strategy identifier is outside { foxGrid, guideGrid, hboGrid, slingGrid,  *)
(* youtubeGrid }: never for an identifier of that set, and otherwise once,   *)
(* as the first operation of the call and so before the registry lookup,     *)
(* for tileClick and for an unregistered identifier as for any other.        *)
C17_PollExactlyOutsideSkipSet ==
    LET Polls == { i \in DOMAIN trace : trace[i].op = "waitForFunction" }
        needed == (profile.strategy # "none") /\ (profile.channelSelector # Absent)
        skips == profile.strategy \in
                   { "foxGrid", "guideGrid", "hboGrid", "slingGrid", "youtubeGrid" }
    IN  (pc # "idle") =>
          /\ (~needed \/ skips) => (Polls = {})
          /\ (needed /\ ~skips) =>
               /\ Polls \subseteq { 1 }
               /\ (pc # "poll") => (Polls = { 1 })
               /\ (pc = "poll") => (trace = <<>>)
               /\ \A i \in Lookups : i = 2
               /\ \A i \in Polls : trace[i].note = profile.channelSelector

C17_Witness ==
    /\ pc = "done"
    /\ profile.strategy = "bogusGrid"
    /\ Len(trace) = 2
    /\ trace[1].op = "waitForFunction"
    /\ trace[1].ok
    /\ trace[2].op = "lookup"

(* C18: every call of scrollAndClick waits the settle delay and then issues  *)
(* exactly one mouse click, at exactly the coordinates it was given, with no *)
(* other operation of its own in between, and returns true once the click    *)
(* was executed, whether or not the page reacted to the click.               *)
C18_SettleThenOneClickAtGivenPoint ==
    LET Clicks == { i \in DOMAIN trace : trace[i].op = "click" }
        Delays == { i \in DOMAIN trace : trace[i].op = "delay" }
    IN  /\ \A i \in Clicks :
              /\ i > 1
              /\ trace[i - 1] = Op("delay", trace[i].note, NoTarget, TRUE)
              /\ (trace[i].note = "tile") =>
                   (trace[i].at.x = tileTarget.x) /\ (trace[i].at.y = tileTarget.y)
              /\ ((pc # "settle") /\ (\A j \in Delays : j < i)) =>
                   (trace[i].at.x = clickArg.x) /\ (trace[i].at.y = clickArg.y)
        /\ \A i \in Delays :
              IF i = Len(trace)
              THEN pc = "click"
              ELSE (trace[i + 1].op = "click") /\ (trace[i + 1].note = trace[i].note)
        /\ (pc = "click") => (trace # <<>>) /\ (trace[Len(trace)].op = "delay")
        /\ Cardinality(Clicks) <= Cardinality(Delays)
        /\ Cardinality(Delays) <= Cardinality(Clicks) + 1
        /\ clickReturned =>
              \E i \in Clicks : trace[i].ok /\ (\A j \in Delays : j < i)
        /\ ((trace # <<>>) /\ (trace[Len(trace)].op = "click") /\ trace[Len(trace)].ok)
              => clickReturned

\* scrollAndClick returned true for a confirm click that the page ignored:
\* the verification wait after it still found the element.
C18_Witness ==
    /\ clickReturned
    /\ Len(trace) > 2
    /\ trace[Len(trace)] = Op("waitForSelector", "hidden", NoTarget, FALSE)
    /\ trace[Len(trace) - 1].op = "click"
    /\ trace[Len(trace) - 1].at.x # trace[Len(trace) - 1].at.y
    /\ trace[Len(trace) - 2].op = "delay"

(* C19: the confirm loop is sequential and never reuses coordinates: every   *)
(* confirmation click is at the coordinates of the read of its own attempt,  *)
(* the read of the next attempt comes only after the verification wait of    *)
(* the attempt before it has timed out, and the operations of a call follow  *)
(* one another, one at a time.                                               *)
C19_SequentialFreshCoordinates ==
    /\ \A i \in PlayClicks :
          /\ i > 2
          /\ trace[i - 1] = Op("delay", "play", NoTarget, TRUE)
          /\ trace[i - 2].op = "evaluate"
          /\ trace[i - 2].note = "play:target"
          /\ trace[i - 2].ok
          /\ trace[i - 2].at = trace[i].at
    /\ \A i \in PlayReads :
          /\ i > 1
          /\ \/ trace[i - 1] = Op("waitForSelector", "visible", NoTarget, TRUE)
             \/ trace[i - 1] = Op("waitForSelector", "hidden", NoTarget, FALSE)
          /\ (\E j \in PlayReads : j < i) =>
               (trace[i - 1] = Op("waitForSelector", "hidden", NoTarget, FALSE))
    /\ \A i \in VerifyWaits :
          /\ i > 1
          /\ trace[i - 1].op = "click"
          /\ trace[i - 1].note = "play"
          /\ trace[i - 1].ok
    /\ \A i \in DOMAIN trace : (i < Len(trace)) => trace[i].ok \/ (trace[i].op \in
          { "waitForFunction", "waitForSelector" })

\* The layout shifted between two attempts and the second click followed it.
C19_Witness ==
    \E i, j \in PlayClicks :
        /\ i < j
        /\ trace[i].at # trace[j].at
        /\ trace[j - 2].at = trace[j].at
        /\ trace[j - 3] = Op("waitForSelector", "hidden", NoTarget, FALSE)

(* C20: when the verification wait of attempt k (1 <= k <= 3) sees the       *)
(* confirmation element hidden or removed, the strategy returns success and  *)
(* makes no further read or click; the confirmation clicks of such a call    *)
(* number k, the index of the first attempt whose verification succeeded.    *)
C20_VerifiedEndsWithSuccess ==
    \A i \in VerifyWaits :
        trace[i].ok =>
          /\ i = Len(trace)
          /\ pc \in { "return", "done" }
          /\ stratResult = Success
          /\ (pc = "done") => Returned(Success)
          /\ \A j \in VerifyWaits : (j < i) => ~trace[j].ok
          /\ Cardinality(PlayClicks) = Cardinality(VerifyWaits)
          /\ Cardinality(PlayReads) = Cardinality(VerifyWaits)
          /\ Cardinality(PlayClicks) = attempt + 1
          /\ Cardinality(PlayClicks) \in 1..3

C20_Witness ==
    /\ Returned(Success)
    /\ trace # <<>>
    /\ trace[Len(trace)] = Op("waitForSelector", "hidden", NoTarget, TRUE)
    /\ Cardinality(PlayClicks) = 2
    /\ Cardinality({ i \in VerifyWaits : ~trace[i].ok }) = 1

(* C13: clearChannelSelectionCaches empties every provider cache, whatever   *)
(* the caches held before, and a second call in a row leaves the caches as   *)
(* the first call left them.                                                 *)
C13_ClearEmptiesEveryCache ==
    /\ (clearedFrom.calls > 0) =>
          /\ \A p \in Providers : caches[p] = {}
          /\ clearedFrom.once = caches
    /\ \A p \in Providers : clearChannelSelectionCaches(caches)[p] = {}
    /\ clearChannelSelectionCaches(clearChannelSelectionCaches(caches))
         = clearChannelSelectionCaches(caches)

C13_Witness ==
    /\ clearedFrom.calls = 2
    /\ \A p \in Providers : clearedFrom.before[p] # {}
    /\ \A p \in Providers : caches[p] = {}

C14_OneWarningOrNone ==
    LET o == options
        unfiltered == o.presetSuffix \in { Undefined, <<>> }
        allCovered == \A i \in DOMAIN o.availableChannels :
                         Covered(o.availableChannels[i],
                                 KnownSelectors(o.presetSuffix, o.additionalKnownNames))
    IN  /\ ~o.returned => (warnings = <<>>)
        /\ o.returned =>
             /\ Len(warnings) <= 1
             /\ \A i \in DOMAIN warnings : warnings[i].level = "warn"
             /\ (o.availableChannels = <<>>) => (warnings = <<>>)
             /\ (unfiltered /\ (o.availableChannels # <<>>)) =>
                  /\ Len(warnings) = 1
                  /\ warnings[1].list = Join(o.availableChannels)
                  /\ warnings[1].countLabel = << Len(o.availableChannels) >>
             /\ (~unfiltered /\ (o.availableChannels # <<>>)) =>
                  ((warnings = <<>>) <=> allCovered)

\* A filtered call whose two discovered names are both covered logs nothing.
C14_Witness ==
    /\ options.returned
    /\ options.presetSuffix = Suffix_YTTV
    /\ options.availableChannels = << N_ESPN_West, N_ESPN_2 >>
    /\ warnings = <<>>

(* C15: with a preset suffix, a discovered name is left out of the logged    *)
(* list exactly when, both sides lowercased, some selector of the exclusion  *)
(* set (the selectors of the presets with that suffix and the additional     *)
(* known names) equals the name without its trailing parenthetical, or is    *)
(* followed in the name by one space and then a digit 0..9; with selector    *)
(* "espn" the names ESPN, ESPN 2, ESPN News, ESPN (West) leave "ESPN News".  *)
C15_ExcludedIffCovered ==
    LET o == options
        excl == KnownSelectors(o.presetSuffix, o.additionalKnownNames)
        cuts(l) == { k \in 1..(Len(l) - 2) : (l[k] = " ") /\ (l[k + 1] = "(") }
        stripped(l) ==
            IF (l # <<>>) /\ (l[Len(l)] = ")") /\ (cuts(l) # {})
            THEN SubSeq(l, 1, (CHOOSE k \in cuts(l) : \A j \in cuts(l) : k <= j) - 1)
            ELSE l
        digitAfter(l, sel) ==
            /\ Len(l) >= Len(sel) + 2
            /\ \E d \in { "0", "1", "2", "3", "4", "5", "6", "7", "8", "9" } :
                  SubSeq(l, 1, Len(sel) + 2) = sel \o << " ", d >>
        excluded(n) ==
            \E sel \in excl : (stripped(toLowerCase(n)) = sel) \/ digitAfter(toLowerCase(n), sel)
        kept(n) == ~excluded(n)
        expected == SelectSeq(o.availableChannels, kept)
    IN  (o.returned /\ (o.presetSuffix \notin { Undefined, <<>> })) =>
          /\ (expected = <<>>) => (warnings = <<>>)
          /\ (expected # <<>>) =>
               /\ Len(warnings) = 1
               /\ warnings[1].list = Join(expected)
               /\ warnings[1].countLabel =
                    << "uncovered", Len(expected), Len(o.availableChannels) >>
          /\ ( (o.availableChannels = << N_ESPN, N_ESPN_2, N_ESPN_News, N_ESPN_West >>)
               /\ (excl = { << "e", "s", "p", "n" >> }) ) =>
               /\ Len(warnings) = 1
               /\ warnings[1].list = N_ESPN_News

C15_Witness ==
    /\ options.returned
    /\ options.presetSuffix = Suffix_YTTV
    /\ options.additionalKnownNames = Undefined
    /\ options.availableChannels = ExampleChannels
    /\ Len(warnings) = 1
    /\ warnings[1].list = N_ESPN_News
    /\ warnings[1].countLabel = << "uncovered", 1, 4 >>

\* The images whose src contains the slug and whose box has positive area.
Qualifying(images, slug) ==
    { i \in DOMAIN images :
        (slug \in images[i].src) /\ (images[i].w > 0) /\ (images[i].h > 0) }

\* The ancestors that are semantic clickables with a positive-area box.
SemanticAt(anc) ==
    { j \in DOMAIN anc :
        /\ (anc[j].tag \in { "A", "BUTTON" }) \/ (anc[j].role = "button") \/ anc[j].onclick
        /\ (anc[j].w > 0) /\ (anc[j].h > 0) }

\* The ancestors larger than 20x20 whose cursor is "pointer".
PointerAt(anc) ==
    { j \in DOMAIN anc : (anc[j].cursor = "pointer") /\ (anc[j].w > 20) /\ (anc[j].h > 20) }

\* The least member of a non-empty set of positions: the first image in
\* document order, the ancestor nearest to the image.
Nearest(S) == CHOOSE k \in S : \A j \in S : k <= j

\* The target the ancestors of image i alone give: the center of the nearest
\* semantic clickable, else of the nearest pointer ancestor, else none.
DecidedBy(images, i) ==
    LET anc == images[i].ancestors
    IN  IF SemanticAt(anc) # {}
        THEN Center(anc[Nearest(SemanticAt(anc))], i, Nearest(SemanticAt(anc)))
        ELSE IF PointerAt(anc) # {}
             THEN Center(anc[Nearest(PointerAt(anc))], i, Nearest(PointerAt(anc)))
             ELSE NoTarget

(* C21: in the ancestor walk the semantic tier has priority: when the first  *)
(* matching image with a positive-area box has a semantic clickable ancestor *)
(* with a positive-area box, the target is the center of the nearest such    *)
(* ancestor, even with a pointer-cursor ancestor nearer to the image; the    *)
(* center of the nearest pointer ancestor larger than 20x20 is the target    *)
(* only when the image has no such semantic ancestor.                        *)
C21_SemanticTierFirst ==
    LET Q == Qualifying(dom, profile.channelSelector)
        anc == dom[Nearest(Q)].ancestors
    IN  ((pc = "located") /\ (Q # {})) =>
          /\ (SemanticAt(anc) # {}) =>
               /\ tileTarget.x = (100 * Nearest(Q)) + (anc[Nearest(SemanticAt(anc))].w \div 2)
               /\ tileTarget.y = (100 * Nearest(SemanticAt(anc)))
                                   + (anc[Nearest(SemanticAt(anc))].h \div 2)
          /\ ((SemanticAt(anc) = {}) /\ (PointerAt(anc) # {})) =>
               /\ tileTarget.x = (100 * Nearest(Q)) + (anc[Nearest(PointerAt(anc))].w \div 2)
               /\ tileTarget.y = (100 * Nearest(PointerAt(anc)))
                                   + (anc[Nearest(PointerAt(anc))].h \div 2)

\* A pointer-cursor ancestor lies nearer to the image than the anchor whose
\* center Locate returned.
C21_Witness ==
    /\ pc = "located"
    /\ dom # <<>>
    /\ Qualifying(dom, Slug) = { 1 }
    /\ PointerAt(dom[1].ancestors) = { 1 }
    /\ SemanticAt(dom[1].ancestors) = { 2 }
    /\ tileTarget = [x |-> 115, y |-> 215]

(* C22: the outcome of Locate is decided by the first image, in document     *)
(* order, whose src contains the slug and whose box has positive area: the   *)
(* target comes from that image's ancestors, and when neither tier gives one *)
(* for that image Locate yields no target, whatever other matching images    *)
(* the page has.                                                             *)
C22_FirstImageDecides ==
    LET Q == Qualifying(dom, profile.channelSelector)
    IN  (pc = "located") =>
          tileTarget = (IF Q = {} THEN NoTarget ELSE DecidedBy(dom, Nearest(Q)))

(* C23: selectChannel never resets a provider cache and leaves the caches   *)
(* of the other strategies alone: a cache changes only when its owning       *)
(* strategy runs and adds to it, or when clearChannelSelectionCaches empties *)
(* all of them between two calls; a tileClick selection changes no cache.    *)
C23_CachesChangeOnlyByOwnerOrClear ==
    [][ \A p \in Providers :
          (caches'[p] # caches[p]) =>
            \/ /\ pc \in { "idle", "done" }
               /\ UNCHANGED callVars
               /\ \A q \in Providers : caches'[q] = {}
            \/ /\ pc = "strategy"
               /\ \/ (profile.strategy = "hboGrid") /\ (p = "hbo")
                  \/ (profile.strategy = "guideGrid") /\ (p = "hulu")
                  \/ (profile.strategy = "slingGrid") /\ (p = "sling")
               /\ caches[p] \subseteq caches'[p] ]_vars

\* A tileClick selection has returned and the caches filled by earlier
\* selections of the three caching strategies are all still there.
C23_Witness ==
    /\ pc = "done"
    /\ outcome = "returned"
    /\ profile.strategy = "tileClick"
    /\ profile.channelSelector = Slug
    /\ Invocations # {}
    /\ \A p \in Providers : caches[p] # {}

(* C24: every result selectChannel returns is well tagged: a failure carries *)
(* a non-empty reason and a success carries none; the reasons of the failure *)
(* paths (unknown strategy, tile not found, confirmation never appeared, no  *)
(* dimensions on the first read, retries exhausted) differ pairwise, so the  *)
(* reason tells which path failed.                                           *)
C24_ResultsWellTagged ==
    LET last == trace[Len(trace)]
        reasonIs(text) == (~result.success) /\ (result.reason = text)
    IN  /\ Cardinality({ UnknownStrategyResult, TileNotFoundResult, PlayNeverAppearedResult,
                         PlayNoDimensionsResult, PlayExhaustedResult }) = 5
        /\ ((pc = "done") /\ (outcome = "returned")) =>
             /\ result.success \in BOOLEAN
             /\ result.success => (DOMAIN result = { "success" })
             /\ (~result.success) =>
                  /\ DOMAIN result = { "success", "reason" }
                  /\ result.reason # <<>>
                  /\ \A k \in DOMAIN result.reason : result.reason[k] # ""
                  /\ trace # <<>>
             /\ (~result.success) =>
                  /\ reasonIs(<<"Unknown channel selection strategy.">>)
                       <=> (last.op = "lookup")
                  /\ (profile.strategy = "tileClick") =>
                       /\ reasonIs(<<"Channel tile not found in page images.">>)
                            <=> ((last.op = "evaluate") /\ (last.note = "locate"))
                       /\ reasonIs(<<"Play button did not appear after clicking channel tile.">>)
                            <=> ((last.op = "waitForSelector") /\ (last.note = "visible"))
                       /\ reasonIs(<<"Play button found but has no dimensions.">>)
                            <=> ((last.op = "evaluate") /\ (last.note \in PlayReadNotes))
                       /\ reasonIs(<<"Play button click did not dismiss the modal after ",
                                     "3", " attempts.">>)
                            <=> ((last.op = "waitForSelector") /\ (last.note = "hidden"))

\* The first read found the confirmation element without width: the failure
\* returned names that path and no other.
C24_Witness ==
    /\ Returned(Failure(<<"Play button found but has no dimensions.">>))
    /\ trace # <<>>
    /\ trace[Len(trace)].note = "play:nodims"
    /\ PlayClicks = {}

(* C25: a call of the tile strategy makes at most 4 mouse clicks, one tile   *)
(* click and at most 3 confirmation clicks; the tile click comes before the  *)
(* confirmation-appearance wait and before every confirmation click; a       *)
(* success implies that the tile click was issued, and the failure "tile not *)
(* found" that no click was.                                                 *)
C25_ClickBudgetAndOrder ==
    LET Clicks == { i \in DOMAIN trace : trace[i].op = "click" }
    IN  (profile.strategy = "tileClick") =>
          /\ Cardinality(Clicks) <= 4
          /\ Cardinality(TileClicks) <= 1
          /\ Cardinality(PlayClicks) <= 3
          /\ Clicks = TileClicks \cup PlayClicks
          /\ \A i \in AppearWaits \cup PlayClicks \cup PlayReads \cup VerifyWaits :
                \E t \in TileClicks : (t < i) /\ trace[t].ok
          /\ (stratResult = [success |-> TRUE]) =>
                \E t \in TileClicks : trace[t].ok
          /\ ((stratResult # NoResult) /\ (~stratResult.success)
              /\ (stratResult.reason = <<"Channel tile not found in page images.">>)) =>
                (Clicks = {})

\* The longest call: the tile click and three confirmation clicks.
C25_Witness ==
    /\ pc = "done"
    /\ profile.strategy = "tileClick"
    /\ Cardinality({ i \in DOMAIN trace : trace[i].op = "click" }) = 4
    /\ Cardinality(TileClicks) = 1
    /\ Cardinality(PlayClicks) = 3
    /\ \A i \in PlayClicks : \A t \in TileClicks : t < i
    /\ stratResult # NoResult
    /\ ~stratResult.success

(* C26: a coordinate read that yields no target ends the confirm phase with  *)
(* success on every attempt after the first and with the failure "no         *)
(* dimensions" on the first attempt, for an element removed from the DOM and *)
(* for an element still there whose box has zero width or height alike: the *)
(* outcome depends on the attempt index only.                                *)
C26_NoTargetOutcomeByAttemptIndex ==
    /\ \A i \in PlayReads :
          (trace[i].note \in { "play:absent", "play:nodims" }) =>
            /\ trace[i].at = NoTarget
            /\ IF \E j \in PlayReads : j < i
               THEN StrategyEndedAt(i, [success |-> TRUE])
               ELSE StrategyEndedAt(i, Failure(<<"Play button found but has no dimensions.">>))
    /\ \A i \in PlayReads :
          (trace[i].note = "play:target") =>
            trace[i].at \in { [x |-> 220, y |-> 310], [x |-> 220, y |-> 350] }

\* After one confirmation click the element is still in the DOM, without
\* width: the call succeeds.
C26_Witness ==
    /\ Returned(Success)
    /\ trace # <<>>
    /\ trace[Len(trace)].note = "play:nodims"
    /\ Cardinality(PlayClicks) = 1

====
